---- MODULE Spec2Model ----
(***************************************************************************)
(* Announcements router (src/backend/routers/announcements.py).            *)
(*                                                                         *)
(* Text values (titles, dates, ids, usernames) are sequences of one-       *)
(* character strings, so that parsing and formatting are computed          *)
(* character by character.  A Python None is the value None below, which   *)
(* is no text.  A date object is a triple <<year, month, day>>.            *)
(***************************************************************************)
EXTENDS Integers, Sequences, FiniteSets, TLC

\* Number of ObjectIds the store hands out in a run.
MaxCreates == 2

None == <<"None">>
NoDate == <<>>
ValueError == <<-1>>

----------------------------------------------------------------------------
(* Characters *)

DigitVal(c) ==
  CASE c = "0" -> 0 [] c = "1" -> 1 [] c = "2" -> 2 [] c = "3" -> 3
    [] c = "4" -> 4 [] c = "5" -> 5 [] c = "6" -> 6 [] c = "7" -> 7
    [] c = "8" -> 8 [] c = "9" -> 9 [] OTHER -> -1

HexVal(c) ==
  CASE DigitVal(c) >= 0 -> DigitVal(c)
    [] c \in {"a", "A"} -> 10 [] c \in {"b", "B"} -> 11
    [] c \in {"c", "C"} -> 12 [] c \in {"d", "D"} -> 13
    [] c \in {"e", "E"} -> 14 [] c \in {"f", "F"} -> 15
    [] OTHER -> -1

DigitChars == <<"0", "1", "2", "3", "4", "5", "6", "7", "8", "9">>
HexChars == DigitChars \o <<"a", "b", "c", "d", "e", "f">>
LowerChars ==
  <<"a", "b", "c", "d", "e", "f", "g", "h", "i", "j", "k", "l", "m",
    "n", "o", "p", "q", "r", "s", "t", "u", "v", "w", "x", "y", "z">>

\* Code point of a character (the order Python and the store compare by).
Ord(c) ==
  CASE c = "-" -> 45
    [] c = ":" -> 58
    [] c = "T" -> 84
    [] c = "Z" -> 90
    [] DigitVal(c) >= 0 -> 48 + DigitVal(c)
    [] OTHER -> 96 + (CHOOSE i \in 1..26 : LowerChars[i] = c)

\* a < b for str values.
RECURSIVE StrLT(_, _)
StrLT(a, b) ==
  IF b = <<>> THEN FALSE
  ELSE IF a = <<>> THEN TRUE
  ELSE IF Ord(Head(a)) # Ord(Head(b)) THEN Ord(Head(a)) < Ord(Head(b))
  ELSE StrLT(Tail(a), Tail(b))

StrLE(a, b) == a = b \/ StrLT(a, b)

----------------------------------------------------------------------------
(* Request values *)

Lee == <<"l", "e", "e">>
Kim == <<"k", "i", "m">>
Eve == <<"e", "v", "e">>

Exam == <<"E", "x", "a", "m">>
Trip == <<"T", "r", "i", "p">>
Moved == <<"m", "o", "v", "e", "d">>

Feb29 == <<"2", "0", "2", "4", "-", "0", "2", "-", "2", "9">>
Mar01 == <<"2", "0", "2", "4", "-", "0", "3", "-", "0", "1">>
Feb30 == <<"2", "0", "2", "4", "-", "0", "2", "-", "3", "0">>
Soon == <<"s", "o", "o", "n">>
EmptyStr == <<>>

\* Every value a date parameter or a stored date field takes in the model.
DateTexts == {Feb29, Mar01, Feb30, Soon, EmptyStr, None}

\* Readings of the clock.
Instants == {<<2024, 2, 28, 9, 30, 0>>}
Days == {<<2024, 2, 28>>, <<2024, 2, 29>>, <<2024, 3, 1>>, <<2024, 3, 2>>}

----------------------------------------------------------------------------
(* datetime.date *)

IsLeap(y) == (y % 4 = 0 /\ y % 100 # 0) \/ y % 400 = 0

DaysInMonth(y, m) ==
  IF m = 2 THEN (IF IsLeap(y) THEN 29 ELSE 28)
  ELSE IF m \in {4, 6, 9, 11} THEN 30 ELSE 31

\* date.fromisoformat on the YYYY-MM-DD form: the date, or ValueError.
date_fromisoformat(s) ==
  IF /\ Len(s) = 10
     /\ s[5] = "-" /\ s[8] = "-"
     /\ \A i \in {1, 2, 3, 4, 6, 7, 9, 10} : DigitVal(s[i]) >= 0
  THEN LET y == 1000 * DigitVal(s[1]) + 100 * DigitVal(s[2])
                  + 10 * DigitVal(s[3]) + DigitVal(s[4])
           m == 10 * DigitVal(s[6]) + DigitVal(s[7])
           d == 10 * DigitVal(s[9]) + DigitVal(s[10])
       IN  IF y >= 1 /\ m \in 1..12 /\ d >= 1 /\ d <= DaysInMonth(y, m)
           THEN <<y, m, d>> ELSE ValueError
  ELSE ValueError

\* a < b for date objects.
DateLT(a, b) ==
  \/ a[1] < b[1]
  \/ a[1] = b[1] /\ a[2] < b[2]
  \/ a[1] = b[1] /\ a[2] = b[2] /\ a[3] < b[3]

DateLE(a, b) == a = b \/ DateLT(a, b)

parse_date(d) ==
  IF d = None \/ d = <<>> THEN NoDate
  ELSE IF date_fromisoformat(d) = ValueError THEN NoDate
  ELSE date_fromisoformat(d)

\* parse_date, computed once for each value of the model.
ParsedDate == [d \in DateTexts |-> parse_date(d)]

----------------------------------------------------------------------------
(* bson.ObjectId *)

\* An ObjectId is 12 bytes, written as 24 hexadecimal characters.  The model
\* keeps it as the number those characters denote (the inputs used here
\* have zero high bytes).
OidHexLen == 24
InvalidId == -1

\* The number the first n characters of s denote.
RECURSIVE HexToInt(_, _)
HexToInt(s, n) ==
  IF n = 0 THEN 0 ELSE 16 * HexToInt(s, n - 1) + HexVal(s[n])

\* ObjectId(announcement_id): the id, or InvalidId where bson raises.
ObjectId(s) ==
  IF Len(s) = OidHexLen /\ \A i \in 1..Len(s) : HexVal(s[i]) >= 0
  THEN HexToInt(s, Len(s)) ELSE InvalidId

RECURSIVE HexDigits(_, _)
HexDigits(n, width) ==
  IF width = 0 THEN <<>>
  ELSE Append(HexDigits(n \div 16, width - 1), HexChars[(n % 16) + 1])

\* str(oid)
ObjectIdStr(oid) == HexDigits(oid, OidHexLen)

\* The store's ObjectIds are fresh; the k-th one it generates.
FirstOid == 10
NewObjectId(k) == FirstOid + k

\* The ids of the model: those the store generates, and the announcement_id
\* values of the requests (one of them malformed).
Oids == {NewObjectId(k) : k \in 1..MaxCreates}
IdInputs == {ObjectIdStr(oid) : oid \in Oids} \cup {<<"b", "a", "d">>}

\* ObjectId and str, computed once for each value of the model.
ParsedId == [s \in IdInputs |-> ObjectId(s)]
OidText == [oid \in Oids |-> ObjectIdStr(oid)]

----------------------------------------------------------------------------
(* Documents and responses *)

\* dict.get(k)
Get(doc, k) == IF k \in DOMAIN doc THEN doc[k] ELSE None

\* The document the store returns for key oid: the stored fields and _id.
WithId(anns, oid) == [_id |-> oid] @@ anns[oid]

\* collection.find(): the documents, in an order the store chooses.
RECURSIVE Orderings(_)
Orderings(S) ==
  IF S = {} THEN {<<>>}
  ELSE UNION {{<<x>> \o t : t \in Orderings(S \ {x})} : x \in S}

find(anns) == Orderings({WithId(anns, oid) : oid \in DOMAIN anns})

\* collection.find_one({"_id": oid}): the document or None.
find_one(anns, oid) == IF oid \in DOMAIN anns THEN WithId(anns, oid) ELSE None

serialize_ann(ann) ==
  [id |-> OidText[ann._id]] @@ [k \in DOMAIN ann \ {"_id"} |-> ann[k]]

NoBody == <<>>
HTTPException(op, status, detail) ==
  [op |-> op, status |-> status, detail |-> detail, body |-> NoBody]
Ok(op, body) == [op |-> op, status |-> 200, detail |-> "", body |-> body]

\* teachers_collection, read only: the usernames (_id) of its documents.
teachers_collection == {Lee, Kim}

----------------------------------------------------------------------------
(* datetime.utcnow().isoformat() + "Z" *)

RECURSIVE Pad(_, _)
Pad(n, width) ==
  IF width = 0 THEN <<>>
  ELSE Append(Pad(n \div 10, width - 1), DigitChars[(n % 10) + 1])

\* dt is <<year, month, day, hour, minute, second>>, microsecond 0.
isoformat(dt) ==
  Pad(dt[1], 4) \o <<"-">> \o Pad(dt[2], 2) \o <<"-">> \o Pad(dt[3], 2)
    \o <<"T">> \o Pad(dt[4], 2) \o <<":">> \o Pad(dt[5], 2)
    \o <<":">> \o Pad(dt[6], 2)

\* created_at, computed once for each reading of the clock.
Timestamp == [dt \in Instants |-> isoformat(dt) \o <<"Z">>]

----------------------------------------------------------------------------
(* The handlers, as functions of the collection and the request.  Each     *)
(* gives the collection afterwards (anns) and the response (resp).         *)

EmptyDict == <<>>

\* As update_one, with an empty filter: every document is updated.
update_many(anns, oid, updates) ==
  IF oid \in DOMAIN anns
  THEN [o \in DOMAIN anns |-> updates @@ anns[o]]
  ELSE anns

\* As update_one, with upsert: a missing document is created from updates.
update_one_upsert(anns, oid, updates) ==
  IF oid \in DOMAIN anns
  THEN [anns EXCEPT ![oid] = updates @@ @]
  ELSE [o \in DOMAIN anns \cup {oid} |->
          IF o = oid THEN updates ELSE anns[o]]

\* announcements_collection.update_one({"_id": oid}, {"$set": updates})
update_one(anns, oid, updates) ==
  IF oid \in DOMAIN anns
  THEN [anns EXCEPT ![oid] = updates @@ @]
  ELSE anns

\* As delete_one, with an empty filter: every document is deleted.
delete_many(anns, oid) ==
  IF oid \in DOMAIN anns
  THEN [anns |-> <<>>, deleted_count |-> Cardinality(DOMAIN anns)]
  ELSE [anns |-> anns, deleted_count |-> 0]

\* announcements_collection.delete_one({"_id": oid}): anns and deleted_count
delete_one(anns, oid) ==
  IF oid \in DOMAIN anns
  THEN [anns |-> [o \in DOMAIN anns \ {oid} |-> anns[o]], deleted_count |-> 1]
  ELSE [anns |-> anns, deleted_count |-> 0]

\* announcements_collection.insert_one(doc), the store assigning inserted_id
insert_one(anns, inserted_id, doc) ==
  [o \in DOMAIN anns \cup {inserted_id} |->
     IF o = inserted_id THEN doc ELSE anns[o]]

\* GET /announcements/ : the possible results (ties in the sort key are in
\* the store's order).
list_announcements(anns) ==
  {out \in find(anns) :
     \A i \in 1..(Len(out) - 1) : StrLE(out[i].expire_date, out[i + 1].expire_date)}

\* As IsActive, with expire > today for expire >= today.
IsActive_strict(ann, today) ==
  LET start == ParsedDate[Get(ann, "start_date")]
      expire == ParsedDate[Get(ann, "expire_date")]
  IN  IF expire = NoDate THEN FALSE
      ELSE IF start # NoDate /\ DateLT(today, start) THEN FALSE
      ELSE DateLT(today, expire)

\* The filter of list_active_announcements for one document.
IsActive(ann, today) ==
  LET start == ParsedDate[Get(ann, "start_date")]
      expire == ParsedDate[Get(ann, "expire_date")]
  IN  IF expire = NoDate THEN FALSE
      ELSE IF start # NoDate /\ DateLT(today, start) THEN FALSE
      ELSE DateLE(today, expire)

\* Keeps the documents of seq that pass the filter, in order.
RECURSIVE ActiveOf(_, _)
ActiveOf(seq, today) ==
  IF seq = <<>> THEN <<>>
  ELSE IF IsActive(Head(seq), today)
       THEN <<Head(seq)>> \o ActiveOf(Tail(seq), today)
       ELSE ActiveOf(Tail(seq), today)

\* list.sort(key=...): stable insertion of x into a sorted list.
RECURSIVE InsertSorted(_, _)
InsertSorted(sorted, x) ==
  IF sorted = <<>> THEN <<x>>
  ELSE IF StrLE(sorted[Len(sorted)].expire_date, x.expire_date)
       THEN Append(sorted, x)
       ELSE Append(InsertSorted(SubSeq(sorted, 1, Len(sorted) - 1), x),
                   sorted[Len(sorted)])

RECURSIVE StableSort(_)
StableSort(seq) ==
  IF seq = <<>> THEN <<>>
  ELSE InsertSorted(StableSort(SubSeq(seq, 1, Len(seq) - 1)), seq[Len(seq)])

\* GET /announcements/active : the possible results on the day today.
list_active_announcements(anns, today) ==
  {StableSort(ActiveOf(cursor, today)) : cursor \in find(anns)}

\* As create_announcement, storing start_date as it was given.
create_announcement_raw_start(anns, inserted_id, title, message, expire_date, start_date, teacher_username, utcnow) ==
  LET exp == ParsedDate[expire_date]
      start == ParsedDate[start_date]
      doc == [title |-> title,
              message |-> message,
              start_date |-> start_date,
              expire_date |-> expire_date,
              created_by |-> teacher_username,
              created_at |-> Timestamp[utcnow]]
  IN  IF teacher_username \notin teachers_collection
      THEN [anns |-> anns,
            resp |-> HTTPException("create", 401, "Authentication required")]
      ELSE IF exp = NoDate
      THEN [anns |-> anns,
            resp |-> HTTPException("create", 400,
                       "Invalid expire_date format, expected YYYY-MM-DD")]
      ELSE IF start # NoDate /\ DateLT(exp, start)
      THEN [anns |-> anns,
            resp |-> HTTPException("create", 400,
                       "start_date cannot be after expire_date")]
      ELSE [anns |-> insert_one(anns, inserted_id, doc),
            resp |-> Ok("create", serialize_ann([_id |-> inserted_id] @@ doc))]

\* As create_announcement, with created_by taken from the title.
create_announcement_wrong_author(anns, inserted_id, title, message, expire_date, start_date, teacher_username, utcnow) ==
  LET exp == ParsedDate[expire_date]
      start == ParsedDate[start_date]
      doc == [title |-> title,
              message |-> message,
              start_date |-> IF start # NoDate THEN start_date ELSE None,
              expire_date |-> expire_date,
              created_by |-> title,
              created_at |-> Timestamp[utcnow]]
  IN  IF teacher_username \notin teachers_collection
      THEN [anns |-> anns,
            resp |-> HTTPException("create", 401, "Authentication required")]
      ELSE IF exp = NoDate
      THEN [anns |-> anns,
            resp |-> HTTPException("create", 400,
                       "Invalid expire_date format, expected YYYY-MM-DD")]
      ELSE IF start # NoDate /\ DateLT(exp, start)
      THEN [anns |-> anns,
            resp |-> HTTPException("create", 400,
                       "start_date cannot be after expire_date")]
      ELSE [anns |-> insert_one(anns, inserted_id, doc),
            resp |-> Ok("create", serialize_ann([_id |-> inserted_id] @@ doc))]

\* POST /announcements/
create_announcement(anns, inserted_id, title, message, expire_date, start_date, teacher_username, utcnow) ==
  LET exp == ParsedDate[expire_date]
      start == ParsedDate[start_date]
      doc == [title |-> title,
              message |-> message,
              start_date |-> IF start # NoDate THEN start_date ELSE None,
              expire_date |-> expire_date,
              created_by |-> teacher_username,
              created_at |-> Timestamp[utcnow]]
  IN  IF teacher_username \notin teachers_collection
      THEN [anns |-> anns,
            resp |-> HTTPException("create", 401, "Authentication required")]
      ELSE IF exp = NoDate
      THEN [anns |-> anns,
            resp |-> HTTPException("create", 400,
                       "Invalid expire_date format, expected YYYY-MM-DD")]
      ELSE IF start # NoDate /\ DateLT(exp, start)
      THEN [anns |-> anns,
            resp |-> HTTPException("create", 400,
                       "start_date cannot be after expire_date")]
      ELSE [anns |-> insert_one(anns, inserted_id, doc),
            resp |-> Ok("create", serialize_ann([_id |-> inserted_id] @@ doc))]

\* As BuildUpdates, without the check that updates is not empty.
BuildUpdates_allow_empty(title, message, expire_date, start_date) ==
  LET u1 == IF title # None THEN [title |-> title] ELSE EmptyDict
      u2 == IF message # None THEN [message |-> message] @@ u1 ELSE u1
      u3 == IF expire_date # None
            THEN [expire_date |-> expire_date] @@ u2 ELSE u2
      u4 == IF start_date # None
            THEN [start_date |-> IF start_date # <<>> THEN start_date ELSE None]
                   @@ u3
            ELSE u3
  IN  IF expire_date # None /\ ParsedDate[expire_date] = NoDate
      THEN [error |-> "Invalid expire_date format", updates |-> EmptyDict]
      ELSE IF /\ start_date # None
              /\ start_date # <<>>
              /\ ParsedDate[start_date] = NoDate
      THEN [error |-> "Invalid start_date format", updates |-> EmptyDict]
      ELSE [error |-> "", updates |-> u4]

\* The updates dict of update_announcement, or the 400 a field raises.
BuildUpdates(title, message, expire_date, start_date) ==
  LET u1 == IF title # None THEN [title |-> title] ELSE EmptyDict
      u2 == IF message # None THEN [message |-> message] @@ u1 ELSE u1
      u3 == IF expire_date # None
            THEN [expire_date |-> expire_date] @@ u2 ELSE u2
      u4 == IF start_date # None
            THEN [start_date |-> IF start_date # <<>> THEN start_date ELSE None]
                   @@ u3
            ELSE u3
  IN  IF expire_date # None /\ ParsedDate[expire_date] = NoDate
      THEN [error |-> "Invalid expire_date format", updates |-> EmptyDict]
      ELSE IF /\ start_date # None
              /\ start_date # <<>>
              /\ ParsedDate[start_date] = NoDate
      THEN [error |-> "Invalid start_date format", updates |-> EmptyDict]
      ELSE IF DOMAIN u4 = {}
      THEN [error |-> "No updates provided", updates |-> EmptyDict]
      ELSE [error |-> "", updates |-> u4]

\* As update_check, with the fields validated before the id is looked at.
update_check_fields_first(anns, announcement_id, title, message, expire_date, start_date, teacher_username) ==
  LET oid == ParsedId[announcement_id]
      built == BuildUpdates(title, message, expire_date, start_date)
      fail(status, detail) ==
        [resp |-> HTTPException("update", status, detail),
         oid |-> InvalidId, updates |-> EmptyDict]
  IN  IF teacher_username \notin teachers_collection
      THEN fail(401, "Authentication required")
      ELSE IF built.error # ""
      THEN fail(400, built.error)
      ELSE IF oid = InvalidId
      THEN fail(400, "Invalid announcement id")
      ELSE IF oid \notin DOMAIN anns
      THEN fail(404, "Announcement not found")
      ELSE [resp |-> [op |-> "update", status |-> 0, detail |-> "",
                      body |-> NoBody],
            oid |-> oid, updates |-> built.updates]

\* PUT /announcements/{id} up to the write: the error response, or (status 0)
\* the oid and the updates to write.
update_check(anns, announcement_id, title, message, expire_date, start_date, teacher_username) ==
  LET oid == ParsedId[announcement_id]
      built == BuildUpdates(title, message, expire_date, start_date)
      fail(status, detail) ==
        [resp |-> HTTPException("update", status, detail),
         oid |-> InvalidId, updates |-> EmptyDict]
  IN  IF teacher_username \notin teachers_collection
      THEN fail(401, "Authentication required")
      ELSE IF oid = InvalidId
      THEN fail(400, "Invalid announcement id")
      ELSE IF oid \notin DOMAIN anns
      THEN fail(404, "Announcement not found")
      ELSE IF built.error # ""
      THEN fail(400, built.error)
      ELSE [resp |-> [op |-> "update", status |-> 0, detail |-> "",
                      body |-> NoBody],
            oid |-> oid, updates |-> built.updates]

\* The end of update_announcement: find_one and serialize_ann.  On None,
\* serialize_ann raises AttributeError, which the framework answers with 500.
update_read(anns, oid) ==
  IF oid \in DOMAIN anns
  THEN Ok("update", serialize_ann(find_one(anns, oid)))
  ELSE HTTPException("update", 500, "Internal Server Error")

\* PUT /announcements/{id}, run without interruption.
update_announcement(anns, announcement_id, title, message, expire_date, start_date, teacher_username) ==
  LET chk == update_check(anns, announcement_id, title, message, expire_date,
                          start_date, teacher_username)
      written == update_one(anns, chk.oid, chk.updates)
  IN  IF chk.resp.status # 0
      THEN [anns |-> anns, resp |-> chk.resp]
      ELSE [anns |-> written, resp |-> update_read(written, chk.oid)]

\* As delete_announcement, with delete_one called before the checks.
delete_announcement_early(anns, announcement_id, teacher_username) ==
  LET oid == ParsedId[announcement_id]
      result == delete_one(anns, oid)
  IN  IF teacher_username \notin teachers_collection
      THEN [anns |-> result.anns,
            resp |-> HTTPException("delete", 401, "Authentication required")]
      ELSE IF oid = InvalidId
      THEN [anns |-> anns,
            resp |-> HTTPException("delete", 400, "Invalid announcement id")]
      ELSE IF result.deleted_count = 0
      THEN [anns |-> anns,
            resp |-> HTTPException("delete", 404, "Announcement not found")]
      ELSE [anns |-> result.anns,
            resp |-> Ok("delete", [message |-> "Announcement deleted"])]

\* DELETE /announcements/{id}
delete_announcement(anns, announcement_id, teacher_username) ==
  LET oid == ParsedId[announcement_id]
      result == delete_one(anns, oid)
  IN  IF teacher_username \notin teachers_collection
      THEN [anns |-> anns,
            resp |-> HTTPException("delete", 401, "Authentication required")]
      ELSE IF oid = InvalidId
      THEN [anns |-> anns,
            resp |-> HTTPException("delete", 400, "Invalid announcement id")]
      ELSE IF result.deleted_count = 0
      THEN [anns |-> anns,
            resp |-> HTTPException("delete", 404, "Announcement not found")]
      ELSE [anns |-> result.anns,
            resp |-> Ok("delete", [message |-> "Announcement deleted"])]

----------------------------------------------------------------------------
(* State *)

\* announcements: announcements_collection, ObjectId -> document
\* issued: how many ObjectIds the store has generated
\* resp: the response of the last step (status 0: none yet)
\* inflight: the update request between its store calls
VARIABLES announcements, issued, resp, inflight

vars == <<announcements, issued, resp, inflight>>

NoResp(op) == [op |-> op, status |-> 0, detail |-> "", body |-> NoBody]
Idle == [pc |-> "idle", oid |-> InvalidId, updates |-> EmptyDict]

Init ==
  /\ announcements = <<>>
  /\ issued = 0
  /\ resp = NoResp("none")
  /\ inflight = Idle

ListAll ==
  /\ \E out \in list_announcements(announcements) :
       resp' = Ok("list_all", [i \in 1..Len(out) |-> serialize_ann(out[i])])
  /\ UNCHANGED <<announcements, issued, inflight>>

ListActive(today) ==
  /\ \E out \in list_active_announcements(announcements, today) :
       resp' = Ok("list_active", [i \in 1..Len(out) |-> serialize_ann(out[i])])
  /\ UNCHANGED <<announcements, issued, inflight>>

Create(title, message, expire_date, start_date, teacher_username, utcnow) ==
  /\ issued < MaxCreates
  /\ LET r == create_announcement(announcements, NewObjectId(issued + 1), title,
                 message, expire_date, start_date, teacher_username, utcnow)
     IN  /\ announcements' = r.anns
         /\ resp' = r.resp
         /\ issued' = IF r.resp.status = 200 THEN issued + 1 ELSE issued
  /\ UNCHANGED inflight

Update(announcement_id, title, message, expire_date, start_date, teacher_username) ==
  /\ LET r == update_announcement(announcements, announcement_id, title,
                 message, expire_date, start_date, teacher_username)
     IN  /\ announcements' = r.anns
         /\ resp' = r.resp
  /\ UNCHANGED <<issued, inflight>>

Delete(announcement_id, teacher_username) ==
  /\ LET r == delete_announcement(announcements, announcement_id,
                                  teacher_username)
     IN  /\ announcements' = r.anns
         /\ resp' = r.resp
  /\ UNCHANGED <<issued, inflight>>

\* The requests of the model.
CreateExpire == {Feb29, Mar01, Feb30, EmptyStr}
CreateStart == {None, Mar01, Soon}
UpdateExpire == {None, Mar01, Feb30}
UpdateStart == {None, EmptyStr, Mar01, Soon}
UpdateTitle == {None, Trip}
UpdateMessage == {None, Moved}
Creators == {Lee, Eve}
Editors == {Kim, Eve}

Next ==
  \/ ListAll
  \/ \E today \in Days : ListActive(today)
  \/ \E expire_date \in CreateExpire, start_date \in CreateStart,
        u \in Creators, utcnow \in Instants :
       Create(Exam, Moved, expire_date, start_date, u, utcnow)
  \/ \E id \in IdInputs, title \in UpdateTitle, message \in UpdateMessage,
        expire_date \in UpdateExpire, start_date \in UpdateStart,
        u \in Editors :
       Update(id, title, message, expire_date, start_date, u)
  \/ \E id \in IdInputs, u \in Editors : Delete(id, u)

Spec == Init /\ [][Next]_vars

----------------------------------------------------------------------------
(* The update handler interleaved with other requests.  Its three store    *)
(* calls (find_one, update_one, find_one) are separate steps; a create or  *)
(* a delete is one store call and takes effect between any two of them.    *)

UpdateBegin(announcement_id, title, message, expire_date, start_date, teacher_username) ==
  /\ inflight.pc = "idle"
  /\ LET chk == update_check(announcements, announcement_id, title, message,
                             expire_date, start_date, teacher_username)
     IN  /\ resp' = chk.resp
         /\ inflight' = IF chk.resp.status # 0 THEN Idle
                        ELSE [pc |-> "write", oid |-> chk.oid,
                              updates |-> chk.updates]
  /\ UNCHANGED <<announcements, issued>>

UpdateWrite ==
  /\ inflight.pc = "write"
  /\ announcements' = update_one(announcements, inflight.oid, inflight.updates)
  /\ inflight' = [inflight EXCEPT !.pc = "read"]
  /\ resp' = NoResp("update")
  /\ UNCHANGED issued

UpdateEnd ==
  /\ inflight.pc = "read"
  /\ resp' = update_read(announcements, inflight.oid)
  /\ inflight' = Idle
  /\ UNCHANGED <<announcements, issued>>

NextRace ==
  \/ \E start_date \in {None, Mar01} :
       Create(Exam, Moved, Mar01, start_date, Lee, <<2024, 2, 28, 9, 30, 0>>)
  \/ \E id \in IdInputs, u \in Editors : Delete(id, u)
  \/ \E id \in IdInputs, title \in UpdateTitle, start_date \in {None, EmptyStr},
        u \in Editors :
       UpdateBegin(id, title, None, None, start_date, u)
  \/ UpdateWrite
  \/ UpdateEnd

SpecRace == Init /\ [][NextRace]_vars

----------------------------------------------------------------------------
(* list_active over any content of the collection, also documents the      *)
(* service did not write.                                                  *)

StoredStart == {Feb29, Mar01, Soon, None}
StoredExpire == {Feb29, Mar01, Feb30, None}

\* Documents with and without the two date fields.
AnyDocs ==
  {[title |-> Exam, start_date |-> s, expire_date |-> e] :
     s \in StoredStart, e \in StoredExpire}
  \cup {[title |-> Exam, expire_date |-> e] : e \in StoredExpire}
  \cup {[title |-> Exam, start_date |-> s] : s \in StoredStart}

InitAny ==
  /\ \E ids \in SUBSET Oids : announcements \in [ids -> AnyDocs]
  /\ issued = MaxCreates
  /\ resp = NoResp("none")
  /\ inflight = Idle

NextActive == \E today \in Days : ListActive(today)

SpecActive == InitAny /\ [][NextActive]_vars

----------------------------------------------------------------------------
(* Properties *)

Stored(oid) == announcements[oid]
Teachers == {Lee, Kim}
Everyone == {Lee, Kim, Eve}
Malformed(id) == ParsedId[id] = InvalidId
Exists(id) == ParsedId[id] \in DOMAIN announcements
ErrorStatus == {401, 400, 404}

\* C1: every stored announcement that has both a start_date and an
\* expire_date has start_date <= expire_date.
C1_DatesOrdered ==
  \A oid \in DOMAIN announcements :
    LET start == ParsedDate[Stored(oid).start_date]
        expire == ParsedDate[Stored(oid).expire_date]
    IN  (start # NoDate /\ expire # NoDate) => DateLE(start, expire)

\* C2, as stated: an update that supplies no field fails with 400
\* "No updates provided" for every requester and every id.
C2_AlwaysNoUpdates ==
  \A id \in IdInputs, u \in Everyone :
    LET r == update_announcement(announcements, id, None, None, None, None, u)
    IN  r.resp = HTTPException("update", 400, "No updates provided")

\* C2, amended: an update that supplies no field always fails and changes
\* nothing; it fails with 401 for a requester who is no teacher, else with
\* 400 "Invalid announcement id" for a malformed id, else with 404 when no
\* record has the id, and else with 400 "No updates provided".
C2_NoFieldsAlwaysFails ==
  \A id \in IdInputs, u \in Everyone :
    LET r == update_announcement(announcements, id, None, None, None, None, u)
    IN  /\ r.anns = announcements
        /\ r.resp =
             IF u \notin Teachers
             THEN HTTPException("update", 401, "Authentication required")
             ELSE IF Malformed(id)
             THEN HTTPException("update", 400, "Invalid announcement id")
             ELSE IF ~Exists(id)
             THEN HTTPException("update", 404, "Announcement not found")
             ELSE HTTPException("update", 400, "No updates provided")

C2_Witness ==
  /\ resp = HTTPException("update", 400, "No updates provided")
  /\ DOMAIN announcements # {}

\* The parsed date of a field of a document, NoDate when the field is
\* missing, None or no ISO date.
FieldDate(doc, k) == ParsedDate[Get(doc, k)]

\* The records the claim C3 calls active on the day today.
ActiveIds(today) ==
  {oid \in DOMAIN announcements :
     /\ FieldDate(Stored(oid), "expire_date") # NoDate
     /\ DateLE(today, FieldDate(Stored(oid), "expire_date"))
     /\ \/ FieldDate(Stored(oid), "start_date") = NoDate
        \/ DateLE(FieldDate(Stored(oid), "start_date"), today)}

\* C3: whatever the collection holds and whatever the day, list_active
\* returns exactly the records whose expire_date parses to today or later
\* and whose start_date is absent, unparseable or not after today (each
\* once).
C3_ActiveExactly ==
  \A today \in Days :
    \A out \in list_active_announcements(announcements, today) :
      /\ {out[i]._id : i \in 1..Len(out)} = ActiveIds(today)
      /\ Len(out) = Cardinality(ActiveIds(today))

C3_Witness ==
  /\ resp.op = "list_active"
  /\ Len(resp.body) = 1
  /\ \E a, b \in DOMAIN announcements :
       /\ resp.body[1].id = OidText[a]
       /\ Get(Stored(a), "start_date") = Soon
       /\ "expire_date" \notin DOMAIN Stored(b)

\* C4: a create, update or delete that answers 401, 400 or 404 leaves the
\* collection as it was.
C4_ErrorsChangeNothing ==
  [][resp'.status \in ErrorStatus => announcements' = announcements]_vars

C4_Witness ==
  /\ resp = HTTPException("update", 400, "Invalid start_date format")
  /\ Cardinality(DOMAIN announcements) = 2

\* C5: a successful update of record r leaves every field that was not
\* supplied as it was, leaves r's id, created_by and created_at as they
\* were, and leaves every other record unchanged.
C5_UpdateFrame ==
  \A id \in IdInputs, title \in UpdateTitle, message \in UpdateMessage,
     expire_date \in UpdateExpire, start_date \in UpdateStart, u \in Teachers :
    LET r == update_announcement(announcements, id, title, message,
                                 expire_date, start_date, u)
        oid == ParsedId[id]
    IN  r.resp.status = 200 =>
          /\ DOMAIN r.anns = DOMAIN announcements
          /\ \A o \in DOMAIN announcements \ {oid} : r.anns[o] = Stored(o)
          /\ DOMAIN r.anns[oid] = DOMAIN Stored(oid)
          /\ r.anns[oid].created_by = Stored(oid).created_by
          /\ r.anns[oid].created_at = Stored(oid).created_at
          /\ r.resp.body.id = id
          /\ title = None => r.anns[oid].title = Stored(oid).title
          /\ message = None => r.anns[oid].message = Stored(oid).message
          /\ expire_date = None
               => r.anns[oid].expire_date = Stored(oid).expire_date
          /\ start_date = None
               => r.anns[oid].start_date = Stored(oid).start_date

C5_Witness ==
  /\ resp.op = "update" /\ resp.status = 200
  /\ resp.body.title = Trip
  /\ resp.body.start_date = Mar01
  /\ resp.body.expire_date = Feb29
  /\ Cardinality(DOMAIN announcements) = 2

\* The ids of the documents of a listing.
ListedIds(out) == {serialize_ann(out[i]).id : i \in 1..Len(out)}

C6_DeleteEffect ==
  \A id \in IdInputs, u \in Teachers :
    LET r == delete_announcement(announcements, id, u)
        oid == ParsedId[id]
    IN  r.resp.status = 200 =>
          /\ DOMAIN r.anns = DOMAIN announcements \ {oid}
          /\ oid \in DOMAIN announcements
          /\ \A o \in DOMAIN r.anns : r.anns[o] = Stored(o)
          /\ \A out \in list_announcements(r.anns) : id \notin ListedIds(out)
          /\ \A today \in Days :
               \A out \in list_active_announcements(r.anns, today) :
                 id \notin ListedIds(out)
          /\ \A u2 \in Teachers :
               delete_announcement(r.anns, id, u2) =
                 [anns |-> r.anns,
                  resp |-> HTTPException("delete", 404,
                                         "Announcement not found")]

C6_StaysDeleted ==
  \A k \in 1..issued :
    NewObjectId(k) \notin DOMAIN announcements
      => NewObjectId(k) \notin DOMAIN announcements'

\* C6: a successful delete of id i by a teacher removes that record and no
\* other, so that no listing has it, and a delete of i fails with 404 and
\* changes nothing from then on: the record never comes back.
C6_DeleteRemoves == []C6_DeleteEffect /\ [][C6_StaysDeleted]_vars

C6_Witness ==
  /\ resp = Ok("delete", [message |-> "Announcement deleted"])
  /\ issued = 2
  /\ Cardinality(DOMAIN announcements) = 1

\* C7: a successful create adds exactly one record; the id it returns
\* differs from the id of every other stored record, and list_all then has
\* a record with that id, the supplied title, message and expire_date, and
\* created_by equal to the requester.
C7_CreateAddsOne ==
  issued < MaxCreates =>
    \A expire_date \in CreateExpire, start_date \in CreateStart,
       u \in Everyone, utcnow \in Instants :
      LET r == create_announcement(announcements, NewObjectId(issued + 1),
                 Exam, Moved, expire_date, start_date, u, utcnow)
      IN  r.resp.status = 200 =>
            /\ Cardinality(DOMAIN r.anns) = Cardinality(DOMAIN announcements) + 1
            /\ \A o \in DOMAIN announcements :
                 /\ o \in DOMAIN r.anns /\ r.anns[o] = Stored(o)
                 /\ OidText[o] # r.resp.body.id
            /\ \A out \in list_announcements(r.anns) :
                 \E i \in 1..Len(out) :
                   /\ serialize_ann(out[i]).id = r.resp.body.id
                   /\ out[i].title = Exam
                   /\ out[i].message = Moved
                   /\ out[i].expire_date = expire_date
                   /\ out[i].created_by = u

C7_Witness ==
  /\ resp.op = "create" /\ resp.status = 200
  /\ resp.body.created_by = Lee
  /\ Cardinality(DOMAIN announcements) = 2

\* C8: update and delete check the requester, then the form of the id,
\* then that the record exists, and update only then its fields: for a
\* teacher a malformed id gives 400 "Invalid announcement id" and a
\* well-formed id of no record gives 404, whatever the fields are.
C8_CheckOrder ==
  \A id \in IdInputs, title \in UpdateTitle, message \in UpdateMessage,
     expire_date \in UpdateExpire, start_date \in UpdateStart, u \in Everyone :
    LET upd == update_announcement(announcements, id, title, message,
                                   expire_date, start_date, u).resp
        del == delete_announcement(announcements, id, u).resp
    IN  /\ u \notin Teachers =>
             /\ upd = HTTPException("update", 401, "Authentication required")
             /\ del = HTTPException("delete", 401, "Authentication required")
        /\ (u \in Teachers /\ Malformed(id)) =>
             /\ upd = HTTPException("update", 400, "Invalid announcement id")
             /\ del = HTTPException("delete", 400, "Invalid announcement id")
        /\ (u \in Teachers /\ ~Malformed(id) /\ ~Exists(id)) =>
             /\ upd = HTTPException("update", 404, "Announcement not found")
             /\ del = HTTPException("delete", 404, "Announcement not found")

C8_Witness ==
  /\ resp = HTTPException("update", 404, "Announcement not found")
  /\ issued = 2
  /\ Cardinality(DOMAIN announcements) = 1

\* C9: once the record of an update in flight is deleted, the update's
\* write changes nothing, the record stays deleted, and the update ends in
\* a failure with no representation of the record.
C9_RaceHarmless ==
  [][(inflight.pc # "idle" /\ inflight.oid \notin DOMAIN announcements) =>
       /\ inflight.oid \notin DOMAIN announcements'
       /\ (inflight'.pc = "read" /\ inflight.pc = "write")
            => announcements' = announcements
       /\ (inflight'.pc = "idle")
            => /\ announcements' = announcements
               /\ resp'.op = "update"
               /\ resp'.status \notin {0, 200}
               /\ resp'.body = NoBody]_vars

C9_Witness ==
  /\ resp.op = "update" /\ resp.status = 500
  /\ inflight.pc = "idle"
  /\ issued = 2
  /\ Cardinality(DOMAIN announcements) = 1
  /\ \A oid \in DOMAIN announcements : Stored(oid).title = Exam

\* C10: every stored announcement has an expire_date that parses as an ISO
\* date and a start_date that is None or parses as an ISO date.
C10_StoredDatesParse ==
  \A oid \in DOMAIN announcements :
    /\ Stored(oid).expire_date # None
    /\ ParsedDate[Stored(oid).expire_date] # NoDate
    /\ \/ Stored(oid).start_date = None
       \/ ParsedDate[Stored(oid).start_date] # NoDate

C10_Witness ==
  /\ Cardinality(DOMAIN announcements) = 2
  /\ \E a, b \in DOMAIN announcements :
       /\ Stored(a).start_date = None /\ Stored(a).expire_date = Mar01
       /\ Stored(b).start_date = Mar01 /\ Stored(b).title = Trip

====
